---- MODULE Spec2Model ----
(***************************************************************************)
(* Model of the middleware decorators of adonisjs-girouette                *)
(* (src/decorators/*_middleware.ts, here src/unnamed/part_000):            *)
(* GroupMiddleware, RouteMiddleware and ResourceMiddleware read a record   *)
(* from the reflect-metadata store, mutate it in place and define it       *)
(* again on the target.  The store keeps object references, so the model   *)
(* keeps a heap of records and, per target, the reference it owns.         *)
(***************************************************************************)
EXTENDS Naturals, Sequences, FiniteSets, TLC

\* Number of decorator applications explored.
MaxOps == 3

(***************************************************************************)
(* The decorated program: three controller classes and the global          *)
(* Function constructor (the value of target.constructor when the target   *)
(* of a method decorator is a class, i.e. for a static method).            *)
(***************************************************************************)
None == "none"

Classes == {"Base", "Sub", "Empty"}

FunctionCtor == "Function"

Targets == Classes \cup {FunctionCtor}

\* Object.getPrototypeOf(target) for a class: the class it extends.
Parent(t) ==
  CASE t = "Sub" -> "Base"
    [] t = "Empty" -> "Base"
    [] OTHER -> None

\* Object.getOwnPropertyNames(target.prototype)
OwnPropertyNames(c) ==
  CASE c = "Base" -> {"constructor", "index", "toString", "version"}
    [] c = "Sub" -> {"constructor", "index"}
    [] OTHER -> {"constructor"}

\* typeof target.prototype[key] === 'function'
IsFunction(c, key) == key # "version"

StaticMethods(c) == IF c = "Base" THEN {"boot"} ELSE {}

Keys == {"constructor", "index", "toString", "version", "boot"}

\* Properties every plain object {} inherits from Object.prototype: a read
\* routes[key] of a key the record does not own yields that (truthy) function.
ObjectProtoKeys == {"constructor", "toString"}

\* The sites a method decorator can be written on.
Methods ==
  {[cls |-> c, key |-> k, static |-> FALSE] :
      c \in Classes, k \in {"index", "toString"}}
  \cup {[cls |-> c, key |-> k, static |-> TRUE] : c \in Classes, k \in {"boot"}}

MethodSites ==
  {m \in Methods :
     IF m.static THEN m.key \in StaticMethods(m.cls)
     ELSE m.key \in OwnPropertyNames(m.cls) /\ IsFunction(m.cls, m.key)}

\* OneOrMore<MiddlewareFn | ParsedNamedMiddleware>: a single handler
\* (arr = FALSE) or an array of handlers (arr = TRUE).
Specs ==
  {[arr |-> FALSE, hs |-> <<"auth">>], [arr |-> TRUE, hs |-> <<"auth", "log">>]}

\* ResourceActionNames | '*' | ResourceActionNames[]
ActionArgs ==
  {[all |-> TRUE, names |-> <<>>],
   [all |-> FALSE, names |-> <<"store">>],
   [all |-> FALSE, names |-> <<"store", "update">>]}

\* Fields of a route entry other than 'middleware' ("" = none).
OtherFields == {"GET /index"}

(***************************************************************************)
(* Values held by the store.                                               *)
(***************************************************************************)
\* routes[key] when the record owns no property key
NoEntry == [has |-> FALSE, other |-> "", hasMw |-> FALSE, mw |-> <<>>]

\* routes[key] = {}
NewEntry == [has |-> TRUE, other |-> "", hasMw |-> FALSE, mw |-> <<>>]

\* const routes = ... || {}
EmptyRoutes == [k \in Keys |-> NoEntry]

\* an Object.prototype function before anything sets a 'middleware' property on it
ProtoFunction == [has |-> TRUE, other |-> "", hasMw |-> FALSE, mw |-> <<>>]

VARIABLES
  metaRoutes,    \* own metadata REFLECT_ROUTES_KEY: target -> record id or None
  heapRoutes,    \* record id -> routes object (key -> entry)
  metaResource,  \* own metadata REFLECT_RESOURCE_MIDDLEWARE_KEY: target -> id or None
  heapResource,  \* record id -> array of {actions, middleware}
  protoFn,       \* 'middleware' property of the functions of Object.prototype
  hist,          \* the last two applications, newest first, each with the store before it
  steps          \* number of applications so far

vars == <<metaRoutes, heapRoutes, metaResource, heapResource, protoFn, hist, steps>>

Store ==
  [metaRoutes |-> metaRoutes, heapRoutes |-> heapRoutes,
   metaResource |-> metaResource, heapResource |-> heapResource,
   protoFn |-> protoFn]

(***************************************************************************)
(* reflect-metadata                                                        *)
(***************************************************************************)
\* Reflect.getMetadata(key, target): the target's own value, else the value of
\* the nearest object on its prototype chain that has one, else undefined.
RECURSIVE GetMetadata(_, _)
GetMetadata(meta, t) ==
  IF t = None THEN None
  ELSE IF meta[t] # None THEN meta[t]
  ELSE GetMetadata(meta, Parent(t))

\* Reflect.getMetadata(...) || {} / || []: the inherited object itself when
\* there is one, a new object otherwise (named after the target that creates
\* it: a target creates at most one, since afterwards it owns a value).
FetchOrCreate(meta, t) ==
  IF GetMetadata(meta, t) # None THEN GetMetadata(meta, t) ELSE t

\* Reflect.defineMetadata(key, value, target)
DefineMetadata(meta, id, t) == [meta EXCEPT ![t] = id]

(***************************************************************************)
(* The body shared by GroupMiddleware and RouteMiddleware for one key.     *)
(***************************************************************************)
\* A variant that normalizes the argument to an array before storing it.
PushIntoNormalized(x, middleware) ==
  IF ~x.hasMw
    THEN [x EXCEPT !.hasMw = TRUE, !.mw = <<[arr |-> TRUE, hs |-> middleware.hs]>>]
    ELSE [x EXCEPT !.mw = Append(@, [arr |-> TRUE, hs |-> middleware.hs])]

\* A variant that replaces an entry without a list by { middleware: [middleware] }.
PushIntoFresh(x, middleware) ==
  IF ~x.hasMw
    THEN [NewEntry EXCEPT !.hasMw = TRUE, !.mw = <<middleware>>]
    ELSE [x EXCEPT !.mw = Append(@, middleware)]

\* if (!x.middleware) x.middleware = [middleware] else x.middleware.push(middleware)
PushInto(x, middleware) ==
  IF ~x.hasMw
    THEN [x EXCEPT !.hasMw = TRUE, !.mw = <<middleware>>]
    ELSE [x EXCEPT !.mw = Append(@, middleware)]

\* A variant that also pushes into every other entry the record owns.
PushMiddlewareAll(routes, key, middleware) ==
  [k \in Keys |->
     IF routes[k].has THEN PushInto(routes[k], middleware)
     ELSE IF k = key /\ k \notin ObjectProtoKeys THEN PushInto(NewEntry, middleware)
     ELSE routes[k]]

\* The routes object after the statements for key.
PushMiddleware(routes, key, middleware) ==
  IF routes[key].has
    THEN [routes EXCEPT ![key] = PushInto(@, middleware)]
  ELSE IF key \in ObjectProtoKeys
    THEN routes
  ELSE [routes EXCEPT ![key] = PushInto(NewEntry, middleware)]

\* The Object.prototype functions after the statements for key: when the
\* record does not own key and Object.prototype has it, routes[key] is that
\* function and the middleware lands on it.
PushProto(routes, proto, key, middleware) ==
  IF ~routes[key].has /\ key \in ObjectProtoKeys
    THEN [proto EXCEPT ![key] = PushInto(@, middleware)]
    ELSE proto

Init ==
  /\ metaRoutes = [t \in Targets |-> None]
  /\ heapRoutes = [t \in Targets |-> EmptyRoutes]
  /\ metaResource = [t \in Targets |-> None]
  /\ heapResource = [t \in Targets |-> <<>>]
  /\ protoFn = [k \in ObjectProtoKeys |-> ProtoFunction]
  /\ hist = <<>>
  /\ steps = 0

Record(op) ==
  /\ hist' = IF hist = <<>> THEN <<[op |-> op, pre |-> Store]>>
                            ELSE <<[op |-> op, pre |-> Store], hist[1]>>
  /\ steps' = steps + 1

\* A variant without the key !== 'constructor' test.
GroupKeysWithConstructor(c) == {k \in OwnPropertyNames(c) : IsFunction(c, k)}

\* for (const key of Object.getOwnPropertyNames(target.prototype))
\*   if (key !== 'constructor' && typeof target.prototype[key] === 'function')
GroupKeys(c) ==
  {k \in OwnPropertyNames(c) : k # "constructor" /\ IsFunction(c, k)}

GroupMiddleware(c, middleware) ==
  LET id == FetchOrCreate(metaRoutes, c)
      routes == heapRoutes[id]
  IN /\ steps < MaxOps
     /\ heapRoutes' =
          [heapRoutes EXCEPT ![id] =
             [k \in Keys |->
                IF k \in GroupKeys(c)
                  THEN PushMiddleware(routes, k, middleware)[k]
                  ELSE routes[k]]]
     /\ protoFn' =
          [k \in ObjectProtoKeys |->
             IF k \in GroupKeys(c)
               THEN PushProto(routes, protoFn, k, middleware)[k]
               ELSE protoFn[k]]
     /\ metaRoutes' = DefineMetadata(metaRoutes, id, c)
     /\ UNCHANGED <<metaResource, heapResource>>
     /\ Record([name |-> "Group", cls |-> c, key |-> "", static |-> FALSE,
                middleware |-> middleware, actions |-> [all |-> FALSE, names |-> <<>>],
                other |-> ""])

\* target.constructor: the class for a prototype (instance method), Function
\* for a class (static method).
Constructor(m) == IF m.static THEN FunctionCtor ELSE m.cls

RouteMiddleware(m, middleware) ==
  LET id == FetchOrCreate(metaRoutes, Constructor(m))
      routes == heapRoutes[id]
  IN /\ steps < MaxOps
     /\ heapRoutes' = [heapRoutes EXCEPT ![id] = PushMiddleware(routes, m.key, middleware)]
     /\ protoFn' = PushProto(routes, protoFn, m.key, middleware)
     /\ metaRoutes' = DefineMetadata(metaRoutes, id, Constructor(m))
     /\ UNCHANGED <<metaResource, heapResource>>
     /\ Record([name |-> "Route", cls |-> m.cls, key |-> m.key, static |-> m.static,
                middleware |-> middleware, actions |-> [all |-> FALSE, names |-> <<>>],
                other |-> ""])

\* A variant that keeps one record per actions value.
PushRecordOnce(resourceMiddleware, actions, middleware) ==
  IF \E i \in 1..Len(resourceMiddleware) : resourceMiddleware[i].actions = actions
    THEN resourceMiddleware
    ELSE Append(resourceMiddleware, [actions |-> actions, middleware |-> middleware])

\* resourceMiddleware.push({ actions, middleware })
PushRecord(resourceMiddleware, actions, middleware) ==
  Append(resourceMiddleware, [actions |-> actions, middleware |-> middleware])

ResourceMiddleware(c, actions, middleware) ==
  LET id == FetchOrCreate(metaResource, c)
  IN /\ steps < MaxOps
     /\ heapResource' =
          [heapResource EXCEPT ![id] = PushRecord(@, actions, middleware)]
     /\ metaResource' = DefineMetadata(metaResource, id, c)
     /\ UNCHANGED <<metaRoutes, heapRoutes, protoFn>>
     /\ Record([name |-> "Resource", cls |-> c, key |-> "", static |-> FALSE,
                middleware |-> middleware, actions |-> actions, other |-> ""])

\* The route decorators of ./src/decorators/methods.js (Get, Post, ...), which
\* write the other fields of an instance method's entry under the same key.
MethodDecorator(m, fields) ==
  LET id == FetchOrCreate(metaRoutes, m.cls)
      routes == heapRoutes[id]
  IN /\ steps < MaxOps
     /\ ~m.static
     /\ heapRoutes' =
          [heapRoutes EXCEPT ![id] =
             [routes EXCEPT ![m.key] =
                [(IF @.has THEN @ ELSE NewEntry) EXCEPT !.other = fields]]]
     /\ metaRoutes' = DefineMetadata(metaRoutes, id, m.cls)
     /\ UNCHANGED <<metaResource, heapResource, protoFn>>
     /\ Record([name |-> "Method", cls |-> m.cls, key |-> m.key, static |-> FALSE,
                middleware |-> [arr |-> TRUE, hs |-> <<>>],
                actions |-> [all |-> FALSE, names |-> <<>>], other |-> fields])

ApplyGroup == \E c \in Classes, s \in Specs : GroupMiddleware(c, s)

ApplyRoute == \E m \in MethodSites, s \in Specs : RouteMiddleware(m, s)

ApplyResource ==
  \E c \in Classes, a \in ActionArgs, s \in Specs : ResourceMiddleware(c, a, s)

ApplyMethod == \E m \in MethodSites, f \in OtherFields : MethodDecorator(m, f)

Next == ApplyGroup \/ ApplyRoute \/ ApplyResource \/ ApplyMethod

Spec == Init /\ [][Next]_vars

(***************************************************************************)
(* Reading the store, and the last applications.                           *)
(***************************************************************************)
\* What the router reads for a target: Reflect.getMetadata(REFLECT_ROUTES_KEY, t),
\* an absent record read as an empty one; its entries are the keys it owns.
RoutesOf(meta, heap, t) ==
  IF GetMetadata(meta, t) = None THEN EmptyRoutes ELSE heap[GetMetadata(meta, t)]

\* Reflect.getMetadata(REFLECT_RESOURCE_MIDDLEWARE_KEY, t), absent read as [].
ResourceOf(meta, heap, t) ==
  IF GetMetadata(meta, t) = None THEN <<>> ELSE heap[GetMetadata(meta, t)]

Applied == hist # <<>>

Last == hist[1].op

Pre == hist[1].pre

Twice == Len(hist) = 2

Earlier == hist[2].op

PreEarlier == hist[2].pre

NowRoutes(t) == RoutesOf(metaRoutes, heapRoutes, t)

PreRoutes(t) == RoutesOf(Pre.metaRoutes, Pre.heapRoutes, t)

LastSite == [cls |-> Last.cls, key |-> Last.key, static |-> Last.static]

\* The target whose record the last Group or Route application wrote.
LastTarget == IF Last.name = "Route" THEN Constructor(LastSite) ELSE Last.cls

\* The keys the last Group or Route application ran its statements for.
LastKeys == IF Last.name = "Route" THEN {Last.key} ELSE GroupKeys(Last.cls)

LastRecord == [actions |-> Last.actions, middleware |-> Last.middleware]

EndsWith(list, a, b) ==
  /\ Len(list) >= 2
  /\ list[Len(list) - 1] = a
  /\ list[Len(list)] = b

(***************************************************************************)
(* C1: after GroupMiddleware(S) on controller C, every own prototype       *)
(* method of C has an entry whose middleware list is its earlier list      *)
(* followed by S (so a second application of S leaves S, S at the end),    *)
(* and C's record has no entry for 'constructor'.                          *)
(***************************************************************************)
C1_GroupAppendsToEveryMethod ==
  (Applied /\ Last.name = "Group") =>
    /\ \A k \in GroupKeys(Last.cls) :
         /\ NowRoutes(Last.cls)[k].has
         /\ NowRoutes(Last.cls)[k].hasMw
         /\ NowRoutes(Last.cls)[k].mw = Append(PreRoutes(Last.cls)[k].mw, Last.middleware)
         /\ (Twice /\ Earlier = Last) =>
              EndsWith(NowRoutes(Last.cls)[k].mw, Last.middleware, Last.middleware)
    /\ ~NowRoutes(Last.cls)["constructor"].has

(***************************************************************************)
(* C2: after RouteMiddleware(S) on method m, m's entry exists and its      *)
(* middleware list is the earlier list L followed by S; after S1 and then  *)
(* S2 on the same m it is L, S1, S2.                                       *)
(***************************************************************************)
C2_RouteAppendsInOrder ==
  (Applied /\ Last.name = "Route") =>
    LET now == NowRoutes(LastTarget)[Last.key]
    IN /\ now.has
       /\ now.hasMw
       /\ now.mw = Append(PreRoutes(LastTarget)[Last.key].mw, Last.middleware)
       /\ (Twice /\ Earlier.name = "Route" /\ Earlier.cls = Last.cls
             /\ Earlier.key = Last.key /\ Earlier.static = Last.static) =>
            now.mw =
              Append(Append(RoutesOf(PreEarlier.metaRoutes, PreEarlier.heapRoutes,
                                     LastTarget)[Last.key].mw,
                            Earlier.middleware),
                     Last.middleware)

(***************************************************************************)
(* C3: when method m of C was decorated with RouteMiddleware(S_route) and  *)
(* C is decorated next with GroupMiddleware(S_group), m's middleware list  *)
(* ends with S_route, S_group.                                             *)
(***************************************************************************)
C3_GroupAfterRoute ==
  (Twice /\ Last.name = "Group" /\ Earlier.name = "Route"
     /\ Earlier.cls = Last.cls /\ ~Earlier.static) =>
    EndsWith(NowRoutes(Last.cls)[Earlier.key].mw, Earlier.middleware, Last.middleware)

(***************************************************************************)
(* What the three formulas above come to on the code.  For a key the       *)
(* record owns, or one Object.prototype does not have, the list grows by   *)
(* the group; for a key such as 'toString' that the record does not own,   *)
(* routes[key] is the inherited function: the record gets no entry and the *)
(* group lands on the 'middleware' property of that function.              *)
(***************************************************************************)
AppendsUnlessInherited ==
  (Applied /\ Last.name \in {"Group", "Route"}) =>
    \A k \in LastKeys :
      LET old == PreRoutes(LastTarget)[k]
          now == NowRoutes(LastTarget)[k]
      IN IF old.has \/ k \notin ObjectProtoKeys
           THEN now.has /\ now.hasMw /\ now.mw = Append(old.mw, Last.middleware)
           ELSE /\ now = old
                /\ protoFn[k].mw = Append(Pre.protoFn[k].mw, Last.middleware)

C5_GroupsAreSequences ==
  /\ \A id \in Targets : \A k \in Keys :
       \A i \in 1..Len(heapRoutes[id][k].mw) : heapRoutes[id][k].mw[i].arr
  /\ \A k \in ObjectProtoKeys :
       \A i \in 1..Len(protoFn[k].mw) : protoFn[k].mw[i].arr

(***************************************************************************)
(* C5 (amended): GroupMiddleware and RouteMiddleware store their argument  *)
(* as given: every list they change grows by exactly the argument itself,  *)
(* a single spec staying a single spec and a sequence staying a sequence.  *)
(***************************************************************************)
C5_GroupsStoredAsGiven ==
  (Applied /\ Last.name \in {"Group", "Route"}) =>
    /\ \A id \in Targets : \A k \in Keys :
         \/ heapRoutes[id][k] = Pre.heapRoutes[id][k]
         \/ heapRoutes[id][k].mw = Append(Pre.heapRoutes[id][k].mw, Last.middleware)
    /\ \A k \in ObjectProtoKeys :
         \/ protoFn[k] = Pre.protoFn[k]
         \/ protoFn[k].mw = Append(Pre.protoFn[k].mw, Last.middleware)
    /\ \A k \in LastKeys :
         \/ heapRoutes[metaRoutes[LastTarget]][k] # Pre.heapRoutes[metaRoutes[LastTarget]][k]
         \/ k \in ObjectProtoKeys /\ protoFn[k] # Pre.protoFn[k]

C5_Witness ==
  /\ Applied
  /\ Last.name = "Route"
  /\ ~Last.middleware.arr
  /\ LET list == NowRoutes(LastTarget)[Last.key].mw
     IN list # <<>> /\ list[Len(list)] = Last.middleware /\ ~list[Len(list)].arr

\* A controller whose prototype holds the constructor and no method.
HasNoMethods(c) ==
  \A k \in OwnPropertyNames(c) : k = "constructor" \/ ~IsFunction(c, k)

(***************************************************************************)
(* C6 (as stated): GroupMiddleware on a controller with no methods leaves  *)
(* the metadata store as it was.                                           *)
(***************************************************************************)
C6_ZeroMethodsNoOp ==
  (Applied /\ Last.name = "Group" /\ HasNoMethods(Last.cls)) => Store = Pre

(***************************************************************************)
(* C6 (amended): GroupMiddleware on a controller with no methods changes   *)
(* no record and no entry, and what is read for every target is what was   *)
(* read before; but it defines the record it read (the inherited one, or a *)
(* new empty one) as the controller's own route metadata.                  *)
(***************************************************************************)
C6_ZeroMethodsKeepsEntries ==
  (Applied /\ Last.name = "Group" /\ HasNoMethods(Last.cls)) =>
    /\ heapRoutes = Pre.heapRoutes
    /\ protoFn = Pre.protoFn
    /\ metaResource = Pre.metaResource /\ heapResource = Pre.heapResource
    /\ \A t \in Targets : NowRoutes(t) = PreRoutes(t)
    /\ \A t \in Targets \ {Last.cls} : metaRoutes[t] = Pre.metaRoutes[t]
    /\ metaRoutes[Last.cls] = FetchOrCreate(Pre.metaRoutes, Last.cls)

C6_Witness ==
  /\ Applied
  /\ Last.name = "Group" /\ HasNoMethods(Last.cls)
  /\ Pre.metaRoutes[Last.cls] = None
  /\ metaRoutes[Last.cls] # None

(***************************************************************************)
(* C7: RouteMiddleware on method m changes no entry of a key other than m: *)
(* for every target and every key k # m, the entry read for k is the one   *)
(* read before.                                                            *)
(***************************************************************************)
C7_RouteLeavesSiblings ==
  (Applied /\ Last.name = "Route") =>
    /\ \A t \in Targets : \A k \in Keys \ {Last.key} : NowRoutes(t)[k] = PreRoutes(t)[k]
    /\ \A k \in ObjectProtoKeys \ {Last.key} : protoFn[k] = Pre.protoFn[k]

C7_Witness ==
  /\ Applied
  /\ Last.name = "Route"
  /\ NowRoutes(Last.cls)[Last.key] # PreRoutes(Last.cls)[Last.key]
  /\ \E k \in Keys \ {Last.key} : PreRoutes(Last.cls)[k].hasMw

(***************************************************************************)
(* C8: RouteMiddleware on a method of class C, instance or static, writes  *)
(* the route metadata of C itself: afterwards C owns the record it read    *)
(* or created, and no other target's route metadata is defined or changed. *)
(***************************************************************************)
C8_RouteWritesDeclaringClass ==
  (Applied /\ Last.name = "Route") =>
    /\ metaRoutes[Last.cls] = FetchOrCreate(Pre.metaRoutes, Last.cls)
    /\ \A t \in Targets \ {Last.cls} : metaRoutes[t] = Pre.metaRoutes[t]
    /\ \A id \in Targets \ {metaRoutes[Last.cls]} : heapRoutes[id] = Pre.heapRoutes[id]

(***************************************************************************)
(* C9: GroupMiddleware, RouteMiddleware and ResourceMiddleware applied to  *)
(* controller C leave the route and the resource metadata of every other   *)
(* controller D # C as they were, also when C extends D.                   *)
(***************************************************************************)
C9_OtherControllersUnchanged ==
  (Applied /\ Last.name \in {"Group", "Route", "Resource"}) =>
    \A d \in Classes \ {Last.cls} :
      /\ metaRoutes[d] = Pre.metaRoutes[d]
      /\ metaRoutes[d] # None => heapRoutes[metaRoutes[d]] = Pre.heapRoutes[metaRoutes[d]]
      /\ metaResource[d] = Pre.metaResource[d]
      /\ metaResource[d] # None =>
           heapResource[metaResource[d]] = Pre.heapResource[metaResource[d]]

(***************************************************************************)
(* C10: when a key's entry exists before GroupMiddleware(S) or             *)
(* RouteMiddleware(S) runs for it, its fields other than 'middleware'      *)
(* stay as they were; the middleware list becomes [S] when there was none  *)
(* and grows by the one group S when there was one.                        *)
(***************************************************************************)
C10_OtherFieldsKept ==
  (Applied /\ Last.name \in {"Group", "Route"}) =>
    \A k \in LastKeys :
      LET old == PreRoutes(LastTarget)[k]
          now == NowRoutes(LastTarget)[k]
      IN old.has =>
           /\ now.has
           /\ now.other = old.other
           /\ now.hasMw
           /\ ~old.hasMw => now.mw = <<Last.middleware>>
           /\ old.hasMw => now.mw = Append(old.mw, Last.middleware)

C10_Witness ==
  /\ Applied
  /\ Last.name \in {"Group", "Route"}
  /\ \E k \in LastKeys :
       /\ PreRoutes(LastTarget)[k].has
       /\ PreRoutes(LastTarget)[k].other # ""
       /\ ~PreRoutes(LastTarget)[k].hasMw
       /\ NowRoutes(LastTarget)[k].other = PreRoutes(LastTarget)[k].other
       /\ NowRoutes(LastTarget)[k].mw = <<Last.middleware>>

====
